---- MODULE Spec2Model ----
(***************************************************************************)
(* loc-sal-tools: the interactive audit of a statute spreadsheet, its      *)
(* checkpoint and resume, and the generation of the HTML fragment.         *)
(*                                                                         *)
(* Text is a sequence of one-character strings, so that str(), int(),      *)
(* lower(), strip() and the digit search are computed as Python computes   *)
(* them.  A spreadsheet cell is a record: a text, an integer, or NaN (an   *)
(* empty cell as pandas reads it).  A row is a function from column names  *)
(* to cells; a DataFrame is a sequence of rows whose position p carries    *)
(* the index label p - 1.                                                  *)
(***************************************************************************)
EXTENDS Integers, Sequences, FiniteSets, TLC

\* ---------------------------------------------------------------- bounds
\* rows in a spreadsheet of the audit specification
MaxRows == 3
\* orchestrator runs in one behaviour
MaxRuns == 2
\* rows in an input of the generation specification
MaxGenRows == 3

\* ------------------------------------------------------------------ text
Digits == <<"0", "1", "2", "3", "4", "5", "6", "7", "8", "9">>
UpperLetters == <<"A", "B", "C", "D", "E", "F", "G", "H", "I", "J", "K", "L", "M",
                  "N", "O", "P", "Q", "R", "S", "T", "U", "V", "W", "X", "Y", "Z">>
LowerLetters == <<"a", "b", "c", "d", "e", "f", "g", "h", "i", "j", "k", "l", "m",
                  "n", "o", "p", "q", "r", "s", "t", "u", "v", "w", "x", "y", "z">>

IsDigit(c) == \E i \in 1..Len(Digits) : Digits[i] = c
DigitVal(c) == (CHOOSE i \in 1..Len(Digits) : Digits[i] = c) - 1
IsSpace(c) == c \in {" ", "\n", "\t"}

\* str.lower()
LowerChar(c) ==
  IF \E i \in 1..Len(UpperLetters) : UpperLetters[i] = c
  THEN LowerLetters[CHOOSE i \in 1..Len(UpperLetters) : UpperLetters[i] = c]
  ELSE c
Lower(s) == [i \in 1..Len(s) |-> LowerChar(s[i])]

\* str.strip()
RECURSIVE LStrip(_)
LStrip(s) == IF s # <<>> /\ IsSpace(Head(s)) THEN LStrip(Tail(s)) ELSE s
RECURSIVE RStrip(_)
RStrip(s) ==
  IF s # <<>> /\ IsSpace(s[Len(s)]) THEN RStrip(SubSeq(s, 1, Len(s) - 1)) ELSE s
Strip(s) == RStrip(LStrip(s))

\* str(n) of an integer
RECURSIVE NatToStr(_)
NatToStr(n) ==
  IF n < 10 THEN <<Digits[n + 1]>>
  ELSE NatToStr(n \div 10) \o <<Digits[(n % 10) + 1]>>
IntToStr(n) == IF n < 0 THEN <<"-">> \o NatToStr(-n) ELSE NatToStr(n)

\* the value of a digit string in which single underscores may separate digits
RECURSIVE DigitsValue(_, _)
DigitsValue(s, acc) ==
  IF s = <<>> THEN acc
  ELSE IF Head(s) = "_" THEN DigitsValue(Tail(s), acc)
  ELSE DigitsValue(Tail(s), 10 * acc + DigitVal(Head(s)))

ValidDigitBody(b) ==
  /\ b # <<>>
  /\ IsDigit(b[1]) /\ IsDigit(b[Len(b)])
  /\ \A i \in 1..Len(b) : IsDigit(b[i]) \/ b[i] = "_"
  /\ \A i \in 1..(Len(b) - 1) : ~(b[i] = "_" /\ b[i + 1] = "_")

\* int(s): surrounding whitespace is ignored, one sign is allowed;
\* ok = FALSE stands for ValueError
ParseInt(s) ==
  LET t == Strip(s)
      signed == t # <<>> /\ t[1] \in {"+", "-"}
      body == IF signed THEN Tail(t) ELSE t
      mag == DigitsValue(body, 0)
  IN IF ValidDigitBody(body)
     THEN [ok |-> TRUE, n |-> IF signed /\ t[1] = "-" THEN -mag ELSE mag]
     ELSE [ok |-> FALSE, n |-> 0]

\* ----------------------------------------------------------------- cells
Text(s) == [k |-> "text", s |-> s, n |-> 0]
Num(n) == [k |-> "int", s |-> <<>>, n |-> n]
NaN == [k |-> "nan", s |-> <<>>, n |-> 0]

\* str(value) as a text
StrOf(c) ==
  CASE c.k = "text" -> c.s
    [] c.k = "int" -> IntToStr(c.n)
    [] c.k = "nan" -> <<"n", "a", "n">>
\* str(value) as a Python value
PyStr(c) == Text(StrOf(c))
\* pd.isna(value)
pd_isna(c) == c.k = "nan"
\* truth value of a Python str
Truthy(c) == c.k = "text" /\ c.s # <<>>

Columns ==
  {"Session", "Type", "Public/Private", "Title", "Date", "Number/Chapter", "PDF Start"}

MkRow(session, type, pp, title, date, nc, pdf) ==
  [col \in Columns |->
     CASE col = "Session" -> session
       [] col = "Type" -> type
       [] col = "Public/Private" -> pp
       [] col = "Title" -> title
       [] col = "Date" -> date
       [] col = "Number/Chapter" -> nc
       [] col = "PDF Start" -> pdf]

\* row.get(col, default)
RowGet(row, col, default) == IF col \in DOMAIN row THEN row[col] ELSE default

\* ---------------------------------------------------------- mapping tables
LawT == <<"L", "a", "w">>
ActT == <<"A", "c", "t">>
TreatyT == <<"T", "r", "e", "a", "t", "y">>
ArticlesT == <<"A", "r", "t", "i", "c", "l", "e", "s">>
IndexT == <<"I", "n", "d", "e", "x">>
MiscT == <<"M", "i", "s", "c">>
OtherT == <<"O", "t", "h", "e", "r">>
PrivateT == <<"P", "r", "i", "v", "a", "t", "e">>
PublicT == <<"P", "u", "b", "l", "i", "c">>

\* maps/html-generators-map.yaml as loaded: statute type -> generator name.
\* MiscT is mapped to a name that is no function of the program; OtherT has
\* no entry.
html_generator_mappings ==
  [ty \in {LawT, ActT, TreatyT, ArticlesT, IndexT, MiscT} |->
     CASE ty = LawT -> "html_for_law"
       [] ty = ActT -> "html_for_act_resolution_appendix"
       [] ty = TreatyT -> "generic_html_generator"
       [] ty = ArticlesT -> "html_for_articles_ordinance"
       [] ty = IndexT -> "html_for_special_pages"
       [] ty = MiscT -> "html_for_miscellany"]

\* maps/statute-map.yaml as loaded: raw statute type -> standard type
statute_mappings ==
  [ty \in {<<"l", "a", "w">>, <<"S", "t", "a", "t", "u", "t", "e">>} |-> LawT]

\* maps/header-map.yaml as loaded: raw header -> standard header
header_mappings ==
  [h \in {"PDF Page", "Chapter", "Sess."} |->
     CASE h = "PDF Page" -> "PDF Start"
       [] h = "Chapter" -> "Number/Chapter"
       [] h = "Sess." -> "Session"]

None == "None"

\* header_mappings.get(header) without the default
map_headers_in_no_default(mappings, header) ==
  IF header \in DOMAIN mappings THEN mappings[header] ELSE None

\* the body of map_headers, the module-level table being a parameter
map_headers_in(mappings, header) ==
  IF header \in DOMAIN mappings THEN mappings[header] ELSE header

map_headers(header) == map_headers_in(header_mappings, header)

\* the body of map_statute_type, applied to a cell of the Type column
map_statute_type_in(mappings, statute_type) ==
  IF statute_type.k = "text" /\ statute_type.s \in DOMAIN mappings
  THEN Text(mappings[statute_type.s])
  ELSE statute_type

map_statute_type(statute_type) == map_statute_type_in(statute_mappings, statute_type)

map_html_generators(statute_type) ==
  IF statute_type \in DOMAIN html_generator_mappings
  THEN html_generator_mappings[statute_type]
  ELSE None

\* --------------------------------------------------------- Roman numerals
\* the table without its subtractive pairs
numeral_map_additive ==
  << [value |-> 1000, sym |-> <<"M">>], [value |-> 500, sym |-> <<"D">>],
     [value |-> 100, sym |-> <<"C">>], [value |-> 50, sym |-> <<"L">>],
     [value |-> 10, sym |-> <<"X">>], [value |-> 5, sym |-> <<"V">>],
     [value |-> 1, sym |-> <<"I">>] >>

numeral_map ==
  << [value |-> 1000, sym |-> <<"M">>], [value |-> 900, sym |-> <<"C", "M">>],
     [value |-> 500, sym |-> <<"D">>], [value |-> 400, sym |-> <<"C", "D">>],
     [value |-> 100, sym |-> <<"C">>], [value |-> 90, sym |-> <<"X", "C">>],
     [value |-> 50, sym |-> <<"L">>], [value |-> 40, sym |-> <<"X", "L">>],
     [value |-> 10, sym |-> <<"X">>], [value |-> 9, sym |-> <<"I", "X">>],
     [value |-> 5, sym |-> <<"V">>], [value |-> 4, sym |-> <<"I", "V">>],
     [value |-> 1, sym |-> <<"I">>] >>

\* the for loop over numeral_map with its inner while loop, from entry i on
RECURSIVE RomanFrom(_, _)
RomanFrom(num, i) ==
  IF i > Len(numeral_map) THEN <<>>
  ELSE IF num >= numeral_map[i].value
       THEN numeral_map[i].sym \o RomanFrom(num - numeral_map[i].value, i)
       ELSE RomanFrom(num, i + 1)

arabic_to_roman(num) == RomanFrom(num, 1)

\* re.search(r"\d+", s): the first maximal run of digits; <<>> stands for no match
RECURSIVE DigitPrefix(_)
DigitPrefix(s) ==
  IF s # <<>> /\ IsDigit(Head(s)) THEN <<Head(s)>> \o DigitPrefix(Tail(s)) ELSE <<>>
RECURSIVE FirstDigitRun(_)
FirstDigitRun(s) ==
  IF s = <<>> THEN <<>>
  ELSE IF IsDigit(Head(s)) THEN DigitPrefix(s)
  ELSE FirstDigitRun(Tail(s))

\* ------------------------------------------------------------- formatters
\* The markup is kept as tokens: the header, a table opening with its
\* session label, a table closing, and a table row of four cells.
Anchor(href, body) == [link |-> TRUE, href |-> href, body |-> body, attr |-> ""]
EmptyAnchor(href, body) == [link |-> TRUE, href |-> href, body |-> body, attr |-> "empty"]
Plain(body) == [link |-> FALSE, href |-> <<>>, body |-> body, attr |-> ""]
Nbsp == <<"&nbsp;">>

Tr(c1, c2, c3, c4) == [t |-> "tr", session |-> <<>>, cells |-> <<c1, c2, c3, c4>>]
OpenTable(session) == [t |-> "open", session |-> session, cells |-> <<>>]
CloseTable == [t |-> "close", session |-> <<>>, cells |-> <<>>]
HeaderFragment == [t |-> "header", session |-> <<>>, cells |-> <<>>]

Returned(out) == [raised |-> FALSE, out |-> out]
Raised == [raised |-> TRUE, out |-> <<>>]

html_for_law(pdf_link, statute_type, title, date, public_private, number_chapter) ==
  Returned(<<Tr(Anchor(pdf_link, number_chapter), Plain(public_private),
                Plain(title), Plain(date))>>)

\* the formatter with the second cell left empty, as in the generic row
html_for_act_with_empty_cell(pdf_link, statute_type, title, date, public_private, number_chapter) ==
  LET matched_digits == FirstDigitRun(number_chapter)
      number == DigitsValue(matched_digits, 0)
  IN IF matched_digits = <<>> THEN Raised
     ELSE Returned(<<Tr(Anchor(pdf_link, statute_type), Plain(<<>>),
                        Plain(arabic_to_roman(number) \o <<".", " ">> \o title),
                        Plain(date))>>)

\* digit_match.group() on no match raises AttributeError
html_for_act_resolution_appendix(pdf_link, statute_type, title, date, public_private, number_chapter) ==
  LET matched_digits == FirstDigitRun(number_chapter)
      number == DigitsValue(matched_digits, 0)
  IN IF matched_digits = <<>> THEN Raised
     ELSE Returned(<<Tr(Anchor(pdf_link, statute_type), Plain(public_private),
                        Plain(arabic_to_roman(number) \o <<".", " ">> \o title),
                        Plain(date))>>)

generic_html_generator(pdf_link, statute_type, title, date, public_private, number_chapter) ==
  Returned(<<Tr(Anchor(pdf_link, statute_type), Plain(<<>>), Plain(title), Plain(date))>>)

html_for_articles_ordinance(pdf_link, statute_type, title, date, public_private, number_chapter) ==
  Returned(<<Tr(Anchor(pdf_link, statute_type), Plain(<<>>), Plain(title), Plain(<<>>))>>)

html_for_special_pages(pdf_link, statute_type, title, date, public_private, number_chapter) ==
  Returned(<<Tr(Plain(Nbsp), Plain(Nbsp), Plain(Nbsp), Plain(Nbsp)),
             Tr(Anchor(pdf_link, statute_type), Plain(<<>>), Plain(title), Plain(<<>>))>>)

html_with_empty_cells(pdf_link, statute_type, title, date, public_private, number_chapter) ==
  Returned(<<Tr(EmptyAnchor(pdf_link, statute_type), Plain(<<>>), Plain(<<>>),
                Plain(<<>>))>>)

\* the functions of the program that a generator name can resolve to
FormatterNames ==
  {"html_for_law", "html_for_act_resolution_appendix", "generic_html_generator",
   "html_for_articles_ordinance", "html_for_special_pages", "html_with_empty_cells"}

\* globals().get(name, None)
GlobalsGet(name) == IF name \in FormatterNames THEN name ELSE None

\* generator(pdf_link, statute_type, title, date, public_private, number_chapter)
CallGenerator(generator, pdf_link, statute_type, title, date, public_private, number_chapter) ==
  CASE generator = "html_for_law" ->
         html_for_law(pdf_link, statute_type, title, date, public_private, number_chapter)
    [] generator = "html_for_act_resolution_appendix" ->
         html_for_act_resolution_appendix(pdf_link, statute_type, title, date,
                                          public_private, number_chapter)
    [] generator = "generic_html_generator" ->
         generic_html_generator(pdf_link, statute_type, title, date, public_private,
                                number_chapter)
    [] generator = "html_for_articles_ordinance" ->
         html_for_articles_ordinance(pdf_link, statute_type, title, date,
                                     public_private, number_chapter)
    [] generator = "html_for_special_pages" ->
         html_for_special_pages(pdf_link, statute_type, title, date, public_private,
                                number_chapter)
    [] generator = "html_with_empty_cells" ->
         html_with_empty_cells(pdf_link, statute_type, title, date, public_private,
                               number_chapter)

\* ----------------------------------------------------------- configuration
PRIVATE_PDF_URL == <<"private.pdf">>
PUBLIC_PDF_URL == <<"public.pdf">>
PageAnchor == <<"#", "p", "a", "g", "e", "=">>

\* the private template as soon as either test holds
generate_pdf_link_either(statute_type, public_private, pdf_start) ==
  IF statute_type = LawT \/ public_private = PrivateT
  THEN PRIVATE_PDF_URL \o PageAnchor \o pdf_start
  ELSE PUBLIC_PDF_URL \o PageAnchor \o pdf_start

generate_pdf_link(statute_type, public_private, pdf_start) ==
  IF statute_type = LawT /\ public_private = PrivateT
  THEN PRIVATE_PDF_URL \o PageAnchor \o pdf_start
  ELSE PUBLIC_PDF_URL \o PageAnchor \o pdf_start

\* ------------------------------------------------------------ generate_html
\* the test that starts a new session: session is the str() of the cell
SessionDiffers(session, previous_session) ==
  ~pd_isna(session) /\ session.s # previous_session

\* the try block around str(row["Session"]) and str(row["Type"]) catches
\* ValueError only; str() raises none
ExtractRaisesValueError(row) == FALSE

\* a fallback to the generic row instead of the empty cells
FallbackGeneric(pdf_link, statute_type, title, date, public_private, number_chapter) ==
  generic_html_generator(pdf_link, statute_type, title, date, public_private,
                         number_chapter)
\* the else branch of the dispatch: no generator was found
FallbackSegment(pdf_link, statute_type, title, date, public_private, number_chapter) ==
  html_with_empty_cells(pdf_link, statute_type, title, date, public_private,
                        number_chapter)

\* the values extracted from a row
RowFields(row) ==
  [session |-> PyStr(row["Session"]),
   statute_type |-> Strip(StrOf(row["Type"])),
   public_private |-> StrOf(RowGet(row, "Public/Private", Text(<<>>))),
   title |-> IF ~pd_isna(row["Title"]) THEN StrOf(row["Title"]) ELSE <<>>,
   date |-> StrOf(row["Date"]),
   number_chapter |-> StrOf(row["Number/Chapter"]),
   pdf_start |-> StrOf(row["PDF Start"])]

\* the generator the dispatch resolves for a statute type, or None
ResolveGenerator(statute_type) == GlobalsGet(map_html_generators(statute_type))

\* the markup of one row: the chosen generator's, or the fallback's
RowSegment(f) ==
  LET pdf_link == generate_pdf_link(f.statute_type, f.public_private, f.pdf_start)
      generator == ResolveGenerator(f.statute_type)
  IN IF generator # None
     THEN CallGenerator(generator, pdf_link, f.statute_type, f.title, f.date,
                        f.public_private, f.number_chapter)
     ELSE FallbackSegment(pdf_link, f.statute_type, f.title, f.date,
                          f.public_private, f.number_chapter)

\* one iteration of the loop over the rows: the state after it, or raised
GenerateRow(html, prev, row) ==
  IF ExtractRaisesValueError(row)
  THEN [raised |-> FALSE, html |-> html, prev |-> prev]
  ELSE
    LET f == RowFields(row)
        differs == SessionDiffers(f.session, prev)
        closing == IF differs /\ prev # <<>> THEN <<CloseTable>> ELSE <<>>
        opening == IF differs /\ Truthy(f.session)
                   THEN <<OpenTable(f.session.s)>> ELSE <<>>
        segment == RowSegment(f)
    IN [raised |-> segment.raised,
        html |-> html \o closing \o opening \o segment.out,
        prev |-> IF differs THEN f.session.s ELSE prev]

\* a final close that does not test previous_session
GenerateCloseAlways(html, prev) == html \o <<CloseTable>>

\* after the loop: close the last table, if any
GenerateClose(html, prev) == IF prev # <<>> THEN html \o <<CloseTable>> ELSE html

\* the whole of generate_html on a DataFrame, from row i on
RECURSIVE GenerateFrom(_, _, _, _)
GenerateFrom(rows, i, html, prev) ==
  IF i > Len(rows) THEN [raised |-> FALSE, html |-> GenerateClose(html, prev)]
  ELSE LET r == GenerateRow(html, prev, rows[i])
       IN IF r.raised THEN [raised |-> TRUE, html |-> r.html]
          ELSE GenerateFrom(rows, i + 1, r.html, r.prev)

generate_html(rows) == GenerateFrom(rows, 1, <<HeaderFragment>>, <<>>)

\* -------------------------------------------------------------------- files
NoFile == [exists |-> FALSE, data |-> <<>>]
File(data) == [exists |-> TRUE, data |-> data]

\* df.to_excel(path, index=False): the cells as stored
to_excel(d) == d
\* pd.read_excel(path): a cell holding no text is read as NaN
ReadCell(c) == IF c.k = "text" /\ c.s = <<>> THEN NaN ELSE c
read_excel(stored) ==
  [p \in 1..Len(stored) |-> [col \in DOMAIN stored[p] |-> ReadCell(stored[p][col])]]

\* load_excel_file: read the sheet, standardize the headers, then the types.
\* A sheet is [headers |-> <<h1, ..>>, rows |-> << <<c1, ..>>, .. >>].
load_excel_file(sheet) ==
  LET columns == [i \in 1..Len(sheet.headers) |-> map_headers(sheet.headers[i])]
      ColPos(col) == CHOOSE i \in 1..Len(columns) : columns[i] = col
      names == {columns[i] : i \in 1..Len(columns)}
      Cell(r, col) ==
        IF col = "Type" THEN map_statute_type(ReadCell(sheet.rows[r][ColPos(col)]))
        ELSE ReadCell(sheet.rows[r][ColPos(col)])
  IN [r \in 1..Len(sheet.rows) |-> [col \in names |-> Cell(r, col)]]

\* get_last_audited_row: 0 without a checkpoint file or with an empty one,
\* else int() of its stripped content (ok = FALSE stands for ValueError)
get_last_audited_row(checkpoint) ==
  IF checkpoint.exists
  THEN LET content == Strip(checkpoint.data)
       IN IF content # <<>> THEN ParseInt(content) ELSE [ok |-> TRUE, n |-> 0]
  ELSE [ok |-> TRUE, n |-> 0]

\* checkpoint_file.write(str(idx))
CheckpointContent(i) == IntToStr(i)

\* a loop that also skips the checkpointed row
SkipRowThroughCheckpoint(i, last) == i <= last
\* the test at the head of the loop body: rows before the checkpoint are skipped
SkipRow(i, last) == i < last

\* an iteration that presents the row it was at once more
NextAuditedAgain(d, from, last) ==
  IF from = 0 THEN (IF last < Len(d) THEN last ELSE Len(d)) ELSE from - 1

\* an iteration that passes over one more row each time it advances
NextAuditedSkipping(d, from, last) ==
  IF \E j \in (from + 1)..(Len(d) - 1) : ~SkipRow(j, last)
  THEN CHOOSE j \in (from + 1)..(Len(d) - 1) :
         /\ ~SkipRow(j, last)
         /\ \A h \in (from + 1)..(j - 1) : SkipRow(h, last)
  ELSE Len(d)

\* the first index label >= from that the loop does not skip; Len(d) when none
NextAudited(d, from, last) ==
  IF \E j \in from..(Len(d) - 1) : ~SkipRow(j, last)
  THEN CHOOSE j \in from..(Len(d) - 1) :
         /\ ~SkipRow(j, last)
         /\ \A h \in from..(j - 1) : SkipRow(h, last)
  ELSE Len(d)

\* an assignment to the whole column instead of one cell
SetPdfStartColumn(d, i, v) == [p \in 1..Len(d) |-> [d[p] EXCEPT !["PDF Start"] = Num(v)]]
\* df.at[idx, "PDF Start"] = correct_pdf_start
SetPdfStart(d, i, v) == [d EXCEPT ![i + 1]["PDF Start"] = Num(v)]

\* the answers at the two prompts
Exit == <<"e", "x", "i", "t">>
IsExit(user_input) == Lower(user_input) = Exit
\* user_input.lower().startswith("y")
IsYesPrefix(user_input) == user_input # <<>> /\ Lower(user_input)[1] = "y"
IsYes(user_input) == Lower(user_input) = <<"y">>
IsNo(user_input) == Lower(user_input) = <<"n">>

\* a main that saves the audited file whatever audit_process returned
SaveAlways(completed) == TRUE
\* main's test of what audit_process returned
SaveAsAudited(completed) == completed

\* an abort that reports completion
ExitReturnsTrue == TRUE
\* what audit_process returns on an abort and at the end of the loop
ExitReturns == FALSE

\* a loop that removes the checkpoint once every row is audited
CheckpointCleared(checkpoint) == NoFile
\* the checkpoint file when the loop is exhausted: return True touches nothing
CheckpointAtReturn(checkpoint) == checkpoint
LoopReturns == TRUE

\* -------------------------------------------------------------------- state
VARIABLES
  excel_file,        \* the input spreadsheet (EXCEL_DIR / EXCEL_FILE)
  audited_file,      \* EXCEL_DIR / AUDITED_PREFIX + EXCEL_FILE
  in_process_file,   \* EXCEL_DIR / IN_PROCESS_PREFIX + EXCEL_FILE
  html_file,         \* HTML_DIR / OUTPUT_FILE
  checkpoint_file,   \* TMP_DIR / audit-checkpoint-<stem>.txt
  pc,                \* "idle" between runs, "confirm" / "correct" at a prompt
  df,                \* the DataFrame of the run
  idx,               \* index label of the row the loop is at
  last_audited_row,  \* the checkpoint the run started from
  runs,              \* orchestrator runs started
  outcome,           \* how the last run ended
  wrote,             \* the files the current run has written
  html_existed,      \* whether the HTML output existed when the run started
  resumed_from,      \* the row the previous run paused at, -1 if it did not pause
  first_asked,       \* the first row the run prompted for, -1 if none yet
  handled,           \* the rows the run confirmed or corrected
  typed,             \* the last answer given at a prompt
  html_content,      \* generate_html: the markup so far
  previous_session,  \* generate_html: previous_session
  pos,               \* generate_html: position of the next row
  gen_pc,            \* generate_html: "loop", "returned", "raised"; "off" in an audit
  call,              \* the function under evaluation, "off" when none is
  mappings,          \* its mapping table (header_mappings or statute_mappings)
  arg,               \* its argument
  result             \* the values it returned, in order

fileVars == <<excel_file, audited_file, in_process_file, html_file, checkpoint_file>>
runVars == <<pc, df, idx, last_audited_row, runs, outcome>>
ghostVars == <<wrote, html_existed, resumed_from, first_asked, handled, typed>>
genVars == <<html_content, previous_session, pos, gen_pc>>
fnVars == <<call, mappings, arg, result>>
vars == <<fileVars, runVars, ghostVars, genVars, fnVars>>

\* ------------------------------------------------------------------- inputs
SessA == <<"A">>
SessB == <<"B">>
TitleT == <<"T">>
DateT == <<"1", "7", "8", "9">>
WithDigits == <<"C", "h", ".", " ", "4">>
NoDigits == <<"n", ".", "n", ".">>
TwoRuns == <<"c", ".", " ", "1", "2", ",", " ", "3">>

StandardHeaders ==
  <<"Session", "Type", "Public/Private", "Title", "Date", "Number/Chapter", "PDF Start">>
RawHeaders ==
  <<"Sess.", "Type", "Public/Private", "Title", "Date", "Chapter", "PDF Page">>

\* row i of the input spreadsheet, cells in header order
SheetRow(i) ==
  CASE i % 3 = 1 -> <<Text(SessA), Text(<<"l", "a", "w">>), Text(PrivateT), Text(TitleT),
                      Text(DateT), Num(10 + i), Num(i)>>
    [] i % 3 = 2 -> <<Text(SessA), Text(ActT), NaN, Text(TitleT),
                      Text(DateT), Text(WithDigits), Num(i)>>
    [] i % 3 = 0 -> <<Text(SessB), Text(ActT), Text(PublicT), NaN,
                      Text(DateT), Text(NoDigits), Num(i)>>

ExcelFiles ==
  {[headers |-> h, rows |-> [i \in 1..n |-> SheetRow(i)]] :
     h \in {StandardHeaders, RawHeaders}, n \in 0..MaxRows}

OldHtml == <<[t |-> "old", session |-> <<>>, cells |-> <<>>]>>

ConfirmInputs ==
  {<<"y">>, <<"Y">>, <<"n">>, <<"N">>, Exit, <<"E", "x", "i", "t">>,
   <<"y", "e", "s">>, <<>>}
CorrectionInputs ==
  {<<"7">>, <<" ", "+", "1", "2">>, Exit, <<"E", "X", "I", "T">>, <<"x">>,
   <<"7", ".", "5">>}

\* --------------------------------------------------------------------- Init
\* no function is evaluated on its own
FnOff == call = "off" /\ mappings = <<>> /\ arg = 0 /\ result = <<>>

Init ==
  /\ excel_file \in ExcelFiles
  /\ audited_file \in {NoFile, File(to_excel(load_excel_file(excel_file)))}
  /\ in_process_file = NoFile
  /\ html_file \in {NoFile, File(OldHtml)}
  /\ checkpoint_file \in
       {NoFile, File(<<>>)} \cup {File(CheckpointContent(k)) : k \in 0..MaxRows}
  /\ pc = "idle" /\ df = <<>> /\ idx = 0 /\ last_audited_row = 0
  /\ runs = 0 /\ outcome = "none"
  /\ wrote = {} /\ html_existed = FALSE /\ resumed_from = -1 /\ first_asked = -1
  /\ handled = {} /\ typed = <<>>
  /\ html_content = <<>> /\ previous_session = <<>> /\ pos = 1 /\ gen_pc = "off"
  /\ FnOff

\* --------------------------------------------------------------------- main
\* lines 306-310: generate the HTML and write it; a raise leaves no file written
WriteHtml(d, w) ==
  LET g == generate_html(d)
  IN /\ html_file' = IF g.raised THEN html_file ELSE File(g.html)
     /\ outcome' = IF g.raised THEN "raised" ELSE "generated"
     /\ wrote' = IF g.raised THEN w ELSE w \cup {"html"}

\* lines 292-310: what main does with the value audit_process returned
AfterAudit(completed, d, w) ==
  IF SaveAsAudited(completed)
  THEN /\ audited_file' = File(to_excel(d))
       /\ in_process_file' = in_process_file
       /\ WriteHtml(d, w \cup {"audited"})
  ELSE /\ in_process_file' = File(to_excel(d))
       /\ audited_file' = audited_file
       /\ html_file' = html_file
       /\ outcome' = "paused"
       /\ wrote' = w \cup {"in_process"}

StartRun ==
  /\ pc = "idle"
  /\ runs < MaxRuns
  /\ runs' = runs + 1
  /\ html_existed' = html_file.exists
  /\ handled' = {}
  /\ typed' = <<>>
  /\ UNCHANGED <<excel_file, genVars, fnVars>>

\* an audited file and an HTML output both exist: refuse and exit
MainCollision ==
  /\ StartRun
  /\ audited_file.exists /\ html_file.exists
  /\ pc' = "idle" /\ outcome' = "collision"
  /\ wrote' = {} /\ resumed_from' = -1 /\ first_asked' = -1
  /\ UNCHANGED <<audited_file, in_process_file, html_file, checkpoint_file,
                 df, idx, last_audited_row>>

\* an audited file without an HTML output: generate from the audited file
MainFromAudited ==
  /\ StartRun
  /\ audited_file.exists /\ ~html_file.exists
  /\ df' = read_excel(audited_file.data)
  /\ WriteHtml(df', {})
  /\ pc' = "idle" /\ resumed_from' = -1 /\ first_asked' = -1
  /\ UNCHANGED <<audited_file, in_process_file, checkpoint_file, idx, last_audited_row>>

\* no audited file: load the sheet and the checkpoint and enter the audit loop,
\* up to its first prompt or, with no row left to ask, to the end of main
MainAudit ==
  /\ StartRun
  /\ ~audited_file.exists
  /\ LET d == load_excel_file(excel_file)
         last == get_last_audited_row(checkpoint_file)
         j == NextAudited(d, 0, last.n)
     IN /\ df' = d
        /\ resumed_from' = IF outcome = "paused" THEN idx ELSE -1
        /\ checkpoint_file' = IF last.ok /\ j >= Len(d)
                              THEN CheckpointAtReturn(checkpoint_file)
                              ELSE checkpoint_file
        /\ IF ~last.ok
           THEN /\ pc' = "idle" /\ outcome' = "raised" /\ wrote' = {}
                /\ first_asked' = -1
                /\ UNCHANGED <<audited_file, in_process_file, html_file, idx,
                               last_audited_row>>
           ELSE /\ last_audited_row' = last.n
                /\ IF j < Len(d)
                   THEN /\ pc' = "confirm" /\ idx' = j /\ first_asked' = j
                        /\ outcome' = "none" /\ wrote' = {}
                        /\ UNCHANGED <<audited_file, in_process_file, html_file>>
                   ELSE /\ pc' = "idle" /\ idx' = idx /\ first_asked' = -1
                        /\ AfterAudit(LoopReturns, d, {})

\* ------------------------------------------------------------ audit_process
\* "exit" at either prompt: write the checkpoint, return; main saves and exits
Abort ==
  /\ checkpoint_file' = File(CheckpointContent(idx))
  /\ pc' = "idle"
  /\ AfterAudit(ExitReturns, df, wrote \cup {"checkpoint"})
  /\ UNCHANGED <<df, idx, handled>>

\* break out of the while loop with DataFrame d: the next row's prompt, or the
\* end of the loop and of main
Break(d) ==
  LET j == NextAudited(d, idx + 1, last_audited_row)
  IN /\ df' = d
     /\ handled' = handled \cup {idx}
     /\ checkpoint_file' = IF j < Len(d) THEN checkpoint_file
                           ELSE CheckpointAtReturn(checkpoint_file)
     /\ IF j < Len(d)
        THEN /\ pc' = "confirm" /\ idx' = j
             /\ UNCHANGED <<audited_file, in_process_file, html_file, outcome, wrote>>
        ELSE /\ pc' = "idle" /\ idx' = idx
             /\ AfterAudit(LoopReturns, d, wrote)

promptFrame == <<excel_file, last_audited_row, runs, html_existed, resumed_from,
                 first_asked, genVars, fnVars>>

ConfirmExit ==
  /\ pc = "confirm"
  /\ \E user_input \in ConfirmInputs :
       /\ IsExit(user_input)
       /\ typed' = user_input
  /\ Abort
  /\ UNCHANGED promptFrame

ConfirmYes ==
  /\ pc = "confirm"
  /\ \E user_input \in ConfirmInputs :
       /\ ~IsExit(user_input) /\ IsYes(user_input)
       /\ typed' = user_input
  /\ Break(df)
  /\ UNCHANGED promptFrame

ConfirmNo ==
  /\ pc = "confirm"
  /\ \E user_input \in ConfirmInputs :
       /\ ~IsExit(user_input) /\ ~IsYes(user_input) /\ IsNo(user_input)
       /\ typed' = user_input
  /\ pc' = "correct"
  /\ UNCHANGED <<fileVars, df, idx, last_audited_row, runs, outcome, wrote,
                 html_existed, resumed_from, first_asked, handled, genVars, fnVars>>

\* any other answer: the usage message, and the same prompt again
ConfirmInvalid ==
  /\ pc = "confirm"
  /\ \E user_input \in ConfirmInputs :
       /\ ~IsExit(user_input) /\ ~IsYes(user_input) /\ ~IsNo(user_input)
       /\ typed' = user_input
  /\ UNCHANGED <<fileVars, runVars, wrote, html_existed, resumed_from, first_asked,
                 handled, genVars, fnVars>>

CorrectionExit ==
  /\ pc = "correct"
  /\ \E correct_pdf_start \in CorrectionInputs :
       /\ IsExit(correct_pdf_start)
       /\ typed' = correct_pdf_start
  /\ Abort
  /\ UNCHANGED promptFrame

CorrectionValid ==
  /\ pc = "correct"
  /\ \E correct_pdf_start \in CorrectionInputs :
       /\ ~IsExit(correct_pdf_start)
       /\ ParseInt(correct_pdf_start).ok
       /\ typed' = correct_pdf_start
       /\ Break(SetPdfStart(df, idx, ParseInt(correct_pdf_start).n))
  /\ UNCHANGED promptFrame

\* ValueError: the while loop repeats from the confirmation prompt
CorrectionInvalid ==
  /\ pc = "correct"
  /\ \E correct_pdf_start \in CorrectionInputs :
       /\ ~IsExit(correct_pdf_start)
       /\ ~ParseInt(correct_pdf_start).ok
       /\ typed' = correct_pdf_start
  /\ pc' = "confirm"
  /\ UNCHANGED <<fileVars, df, idx, last_audited_row, runs, outcome, wrote,
                 html_existed, resumed_from, first_asked, handled, genVars, fnVars>>

Next ==
  \/ MainCollision
  \/ MainFromAudited
  \/ MainAudit
  \/ ConfirmExit
  \/ ConfirmYes
  \/ ConfirmNo
  \/ ConfirmInvalid
  \/ CorrectionExit
  \/ CorrectionValid
  \/ CorrectionInvalid

Spec == Init /\ [][Next]_vars

\* the answers that end the inner while loop: y, an integer correction, exit
Answer == ConfirmExit \/ ConfirmYes \/ CorrectionExit \/ CorrectionValid

\* the user does not answer for ever with n and invalid input only: an answer
\* that ends the inner loop, possible again and again, is eventually given
SpecFair == Spec /\ SF_vars(Answer)

\* ------------------------------------------------- generate_html, row by row
\* the rows the generation specification draws its inputs from
GenRow(session, type, pp, title, nc) ==
  MkRow(session, Text(type), pp, title, Text(DateT), Text(nc), Num(7))

GenRows ==
  {GenRow(Text(s), ty.t, Text(PublicT), Text(TitleT), ty.nc) :
     s \in {SessA, SessB},
     ty \in {[t |-> LawT, nc |-> WithDigits], [t |-> ActT, nc |-> NoDigits],
             [t |-> OtherT, nc |-> WithDigits]}}
  \cup
  {GenRow(Text(SessA), ty, NaN, Text(TitleT), WithDigits) :
     ty \in {ActT, MiscT, TreatyT, ArticlesT, IndexT}}
  \cup
  {GenRow(s, <<" ", "L", "a", "w">>, Text(PrivateT), Text(TitleT), WithDigits) :
     s \in {Text(<<>>), NaN}}
  \cup
  {GenRow(Text(SessB), OtherT, Text(PrivateT), NaN, NoDigits)}
  \cup
  {MkRow(Text(SessA), Text(ActT), Text(PublicT), Text(TitleT), Text(DateT),
         Text(TwoRuns), Num(12)),
   MkRow(Text(SessB), Text(LawT), Text(PrivateT), Text(TitleT), Text(DateT),
         Text(WithDigits), Num(12))}

\* the sessions of the grouping example of the specification
ExampleSessions == <<SessA, SessA, SessB, SessB, SessB>>
ExampleRows ==
  [i \in 1..Len(ExampleSessions) |->
     GenRow(Text(ExampleSessions[i]), IF i % 2 = 0 THEN LawT ELSE OtherT,
            Text(PublicT), Text(TitleT), WithDigits)]

GenInputs ==
  UNION {[1..n -> GenRows] : n \in 0..MaxGenRows} \cup {ExampleRows}

InitGen ==
  /\ df \in GenInputs
  /\ html_content = <<HeaderFragment>> /\ previous_session = <<>> /\ pos = 1
  /\ gen_pc = "loop"
  /\ excel_file = [headers |-> StandardHeaders, rows |-> <<>>]
  /\ audited_file = NoFile /\ in_process_file = NoFile /\ html_file = NoFile
  /\ checkpoint_file = NoFile
  /\ pc = "idle" /\ idx = 0 /\ last_audited_row = 0 /\ runs = 0 /\ outcome = "none"
  /\ wrote = {} /\ html_existed = FALSE /\ resumed_from = -1 /\ first_asked = -1
  /\ handled = {} /\ typed = <<>>
  /\ FnOff

genFrame == <<fileVars, runVars, ghostVars, fnVars>>

\* one iteration of the loop that returns to the loop head
GenerateStep ==
  /\ gen_pc = "loop" /\ pos <= Len(df)
  /\ LET r == GenerateRow(html_content, previous_session, df[pos])
     IN /\ ~r.raised
        /\ html_content' = r.html
        /\ previous_session' = r.prev
  /\ pos' = pos + 1
  /\ UNCHANGED <<gen_pc, genFrame>>

\* one iteration in which the generator raises: generate_html is left
GenerateRaise ==
  /\ gen_pc = "loop" /\ pos <= Len(df)
  /\ LET r == GenerateRow(html_content, previous_session, df[pos])
     IN /\ r.raised
        /\ html_content' = r.html
        /\ previous_session' = r.prev
  /\ gen_pc' = "raised"
  /\ UNCHANGED <<pos, genFrame>>

\* the rows are exhausted: close the last table and return
GenerateReturn ==
  /\ gen_pc = "loop" /\ pos > Len(df)
  /\ html_content' = GenerateClose(html_content, previous_session)
  /\ gen_pc' = "returned"
  /\ UNCHANGED <<previous_session, pos, genFrame>>

NextGen == GenerateStep \/ GenerateRaise \/ GenerateReturn

SpecGen == InitGen /\ [][NextGen]_vars

\* --------------------------------------- the conversions, each on its own
\* the largest number arabic_to_roman is evaluated on
MaxArabic == 3999

\* header names and statute types the mapping tables are drawn over
HeaderNames == {"Sess.", "Session", "Chapter"}
TypeNames == {<<"l", "a", "w">>, LawT, <<"S", "t", "a", "t", "u", "t", "e">>}

\* the tables a YAML file over the given names can hold
TablesOver(names) == UNION {[keys -> names] : keys \in SUBSET names}

InitFn ==
  /\ \/ call = "arabic_to_roman" /\ mappings = <<>> /\ arg \in 1..MaxArabic
     \/ call = "map_headers" /\ mappings \in TablesOver(HeaderNames)
          /\ arg \in HeaderNames
     \/ call = "map_statute_type" /\ mappings \in TablesOver(TypeNames)
          /\ arg \in {Text(t) : t \in TypeNames} \cup {NaN}
  /\ result = <<>>
  /\ df = <<>> /\ html_content = <<>> /\ previous_session = <<>> /\ pos = 1
  /\ gen_pc = "off"
  /\ excel_file = [headers |-> StandardHeaders, rows |-> <<>>]
  /\ audited_file = NoFile /\ in_process_file = NoFile /\ html_file = NoFile
  /\ checkpoint_file = NoFile
  /\ pc = "idle" /\ idx = 0 /\ last_audited_row = 0 /\ runs = 0 /\ outcome = "none"
  /\ wrote = {} /\ html_existed = FALSE /\ resumed_from = -1 /\ first_asked = -1
  /\ handled = {} /\ typed = <<>>

fnFrame == <<fileVars, runVars, ghostVars, genVars, call, mappings, arg>>

\* the argument of the next application: the value returned last, if any
Operand == IF result = <<>> THEN arg ELSE result[Len(result)]

CallArabicToRoman ==
  /\ call = "arabic_to_roman" /\ result = <<>>
  /\ result' = <<arabic_to_roman(arg)>>
  /\ UNCHANGED fnFrame

\* map_headers on the header, then on what it returned
CallMapHeaders ==
  /\ call = "map_headers" /\ Len(result) < 2
  /\ result' = Append(result, map_headers_in(mappings, Operand))
  /\ UNCHANGED fnFrame

\* map_statute_type on the cell, then on what it returned
CallMapStatuteType ==
  /\ call = "map_statute_type" /\ Len(result) < 2
  /\ result' = Append(result, map_statute_type_in(mappings, Operand))
  /\ UNCHANGED fnFrame

NextFn == CallArabicToRoman \/ CallMapHeaders \/ CallMapStatuteType

SpecFn == InitFn /\ [][NextFn]_vars

\* =================================================================== claims
\* ------------------------------------------------------ audit and orchestrator

\* C1: an abort while row k is asked leaves exactly k in the checkpoint store,
\* and the run that follows asks no row before k and prompts first for row k.
C1_CheckpointRoundTrip ==
  /\ (pc = "idle" /\ IsExit(typed)) =>
        /\ checkpoint_file.exists
        /\ get_last_audited_row(checkpoint_file) = [ok |-> TRUE, n |-> idx]
  /\ resumed_from >= 0 =>
        /\ first_asked = resumed_from
        /\ idx >= resumed_from
        /\ \A j \in handled : j >= resumed_from

\* a resumed run at its first prompt, one row having been skipped
C1_Witness ==
  /\ runs = 2 /\ resumed_from = 1 /\ pc = "confirm" /\ idx = 1
  /\ typed = <<>> /\ checkpoint_file.data = <<"1">>

\* C2: the run after an aborted run writes an audited file that carries the
\* corrections the aborted run made to the rows before its checkpoint (the
\* rows of the in-process file it persisted).
C2_ResumeKeepsCorrections ==
  (resumed_from >= 0 /\ "audited" \in wrote) =>
     \A j \in 0..(resumed_from - 1) :
        audited_file.data[j + 1]["PDF Start"] = in_process_file.data[j + 1]["PDF Start"]

\* C3: a valid integer at the correction prompt sets the PDF Start of the row
\* asked and changes no other cell; a confirmation changes no cell.
C3_CorrectionFrame ==
  [][ /\ (pc = "correct" /\ ~IsExit(typed') /\ ParseInt(typed').ok) =>
           /\ Len(df') = Len(df)
           /\ df'[idx + 1]["PDF Start"] = Num(ParseInt(typed').n)
           /\ typed' = <<"7">> => df'[idx + 1]["PDF Start"] = Num(7)
           /\ typed' = <<" ", "+", "1", "2">> => df'[idx + 1]["PDF Start"] = Num(12)
           /\ \A p \in 1..Len(df) :
                 /\ DOMAIN df'[p] = DOMAIN df[p]
                 /\ \A col \in DOMAIN df[p] :
                       (p # idx + 1 \/ col # "PDF Start") => df'[p][col] = df[p][col]
      /\ (pc = "confirm" /\ IsYes(typed')) => df' = df
    ]_vars

\* the second row was just corrected to 7 and the third row is asked
C3_Witness ==
  /\ pc = "confirm" /\ idx = 2 /\ typed = <<"7">>
  /\ df[2]["PDF Start"] = Num(7)
  /\ df[1]["PDF Start"] = Num(1) /\ df[3]["PDF Start"] = Num(3)

\* C4: an HTML output that existed when a run started is never overwritten.
C4_HtmlNeverOverwritten == html_existed => "html" \notin wrote

\* C5: the audited file is written only by a run in which every row from the
\* starting checkpoint on was confirmed or corrected.
C5_AuditedOnlyWhenComplete ==
  "audited" \in wrote =>
     /\ ~IsExit(typed)
     /\ \A j \in 0..(Len(df) - 1) : j >= last_audited_row => j \in handled

\* an audited file written by a run that resumed at row 1 and handled rows 1, 2
C5_Witness ==
  /\ "audited" \in wrote /\ last_audited_row = 1 /\ handled = {1, 2}
  /\ audited_file.exists

\* C6: an abort at either prompt writes the row index to the checkpoint, and
\* main then writes the in-process file with the current rows and ends the run
\* with no audited file and no HTML output written.
C6_AbortPath ==
  (pc = "idle" /\ IsExit(typed)) =>
     /\ outcome = "paused"
     /\ checkpoint_file.exists
     /\ ParseInt(checkpoint_file.data) = [ok |-> TRUE, n |-> idx]
     /\ in_process_file = File(df)
     /\ wrote = {"checkpoint", "in_process"}
     /\ ~audited_file.exists
     /\ html_file.exists = html_existed

\* an abort at the correction prompt of row 1, row 0 corrected before it
C6_Witness ==
  /\ outcome = "paused" /\ typed = <<"E", "X", "I", "T">> /\ idx = 1
  /\ in_process_file.exists /\ in_process_file.data[1]["PDF Start"] = Num(7)
  /\ checkpoint_file.data = <<"1">>

\* ------------------------------------------------------------- generate_html
\* the positions of the tokens of kind t, in order
RECURSIVE Ascending(_)
Ascending(S) ==
  IF S = {} THEN <<>>
  ELSE LET m == CHOOSE x \in S : \A y \in S : x <= y
       IN <<m>> \o Ascending(S \ {m})
PositionsOf(html, t) == Ascending({i \in 1..Len(html) : html[i].t = t})
CountOf(html, t) == Cardinality({i \in 1..Len(html) : html[i].t = t})

\* the tables of a fragment: for each table opening, its session label and the
\* tokens up to the next table opening or closing
TableEnd(html, o) ==
  IF \E c \in (o + 1)..Len(html) : html[c].t \in {"open", "close"}
  THEN CHOOSE c \in (o + 1)..Len(html) :
         /\ html[c].t \in {"open", "close"}
         /\ \A h \in (o + 1)..(c - 1) : html[h].t \notin {"open", "close"}
  ELSE Len(html) + 1
TablesOf(html) ==
  LET opens == PositionsOf(html, "open")
  IN [i \in 1..Len(opens) |->
        [session |-> html[opens[i]].session,
         rows |-> SubSeq(html, opens[i] + 1, TableEnd(html, opens[i]) - 1),
         closed |-> TableEnd(html, opens[i]) <= Len(html)
                    /\ html[TableEnd(html, opens[i])].t = "close"]]

\* the tables the grouping rule asks for: one per maximal run of consecutive
\* rows with the same session, holding the row fragments of the run
RECURSIVE RunFragments(_, _, _)
RunFragments(d, from, to) ==
  IF from > to THEN <<>>
  ELSE RowSegment(RowFields(d[from])).out \o RunFragments(d, from + 1, to)
RunEnd(d, s) ==
  CHOOSE e \in s..Len(d) :
    /\ \A q \in s..e : d[q]["Session"] = d[s]["Session"]
    /\ (e = Len(d) \/ d[e + 1]["Session"] # d[s]["Session"])
ExpectedTables(d) ==
  LET starts == Ascending({p \in 1..Len(d) :
                             p = 1 \/ d[p]["Session"] # d[p - 1]["Session"]})
  IN [i \in 1..Len(starts) |->
        [session |-> d[starts[i]]["Session"].s,
         rows |-> RunFragments(d, starts[i], RunEnd(d, starts[i])),
         closed |-> TRUE]]

AllSessionsNonEmpty(d) ==
  \A p \in 1..Len(d) : d[p]["Session"].k = "text" /\ d[p]["Session"].s # <<>>
BlankSession(row) ==
  pd_isna(row["Session"]) \/ (row["Session"].k = "text" /\ row["Session"].s = <<>>)

\* C7: for rows whose sessions are all non-empty, generate_html produces one
\* table per maximal run of equal sessions, in row order, each holding exactly
\* the row fragments of its run, whatever the other fields are.
C7_SessionGrouping ==
  (gen_pc # "loop" /\ AllSessionsNonEmpty(df)) =>
     /\ gen_pc = "returned"
     /\ TablesOf(html_content) = ExpectedTables(df)

\* the grouping of C7 on the inputs on which generate_html returns
GroupingWhenReturned ==
  (gen_pc = "returned" /\ AllSessionsNonEmpty(df)) =>
     TablesOf(html_content) = ExpectedTables(df)

\* the example of the specification is grouped into two tables of 2 and 3 rows
GroupingExample ==
  (gen_pc = "returned" /\ df = ExampleRows) =>
     /\ Len(TablesOf(html_content)) = 2
     /\ TablesOf(html_content)[1].session = SessA
     /\ Len(TablesOf(html_content)[1].rows) = 2
     /\ TablesOf(html_content)[2].session = SessB
     /\ Len(TablesOf(html_content)[2].rows) = 3

\* C8: a row whose session is empty or missing opens no table and closes none,
\* and leaves the open table, if any, open.
C8_BlankSessionAbsorbed ==
  [][ (gen_pc = "loop" /\ pos <= Len(df) /\ BlankSession(df[pos])) =>
         /\ CountOf(html_content', "open") = CountOf(html_content, "open")
         /\ CountOf(html_content', "close") = CountOf(html_content, "close")
         /\ previous_session' = previous_session
    ]_vars

\* C9: no row makes generate_html raise.
C9_NoRowCrashes == gen_pc # "raised"

\* a row whose type has no mapping entry, or an entry naming no formatter
DispatchMiss(row) ==
  LET ty == Strip(StrOf(row["Type"]))
  IN \/ ty \notin DOMAIN html_generator_mappings
     \/ html_generator_mappings[ty] \notin FormatterNames
\* the row the empty-cells formatter emits for a row
EmptyCellsRow(row) ==
  LET ty == Strip(StrOf(row["Type"]))
      pp == StrOf(RowGet(row, "Public/Private", Text(<<>>)))
  IN Tr(EmptyAnchor(generate_pdf_link(ty, pp, StrOf(row["PDF Start"])), ty),
        Plain(<<>>), Plain(<<>>), Plain(<<>>))

LastHref(html) == html[Len(html)].cells[1].href

\* C11: the link of every emitted row starts with the private template
\* exactly when the stripped type is "Law" and the public/private text is
\* "Private", with the public template otherwise, and goes on with the page
\* anchor built from the text of the row's PDF Start.
C11_PdfLinkSelection ==
  [][ (gen_pc = "loop" /\ pos' = pos + 1) =>
        LET row == df[pos]
            href == LastHref(html_content')
            law == Strip(StrOf(row["Type"])) = LawT
            private == StrOf(RowGet(row, "Public/Private", Text(<<>>))) = PrivateT
        IN /\ (<<href[1]>> = PRIVATE_PDF_URL) <=> (law /\ private)
           /\ (<<href[1]>> = PUBLIC_PDF_URL) <=> ~(law /\ private)
           /\ Tail(href) = PageAnchor \o StrOf(row["PDF Start"])
    ]_vars

\* a private law, a public law and a private row of another type were all
\* given their links
C11_Witness ==
  /\ gen_pc = "returned" /\ Len(df) = 3 /\ CountOf(html_content, "tr") = 3
  /\ StrOf(df[1]["Type"]) = LawT /\ StrOf(df[1]["Public/Private"]) = PrivateT
  /\ df[1]["PDF Start"] = Num(12)
  /\ StrOf(df[2]["Type"]) = LawT /\ StrOf(df[2]["Public/Private"]) = PublicT
  /\ StrOf(df[3]["Type"]) = OtherT /\ StrOf(df[3]["Public/Private"]) = PrivateT
  /\ \E i \in 1..Len(html_content) :
       /\ html_content[i].t = "tr"
       /\ html_content[i].cells[1].href
            = PRIVATE_PDF_URL \o PageAnchor \o <<"1", "2">>

\* ---------------------------------------------------------- Roman numerals
\* a standard parser of Roman numerals: a symbol smaller than its successor
\* is subtracted, any other is added
SymbolValue(c) ==
  CASE c = "I" -> 1 [] c = "V" -> 5 [] c = "X" -> 10 [] c = "L" -> 50
    [] c = "C" -> 100 [] c = "D" -> 500 [] c = "M" -> 1000
RECURSIVE ParseRoman(_)
ParseRoman(s) ==
  IF s = <<>> THEN 0
  ELSE IF Len(s) >= 2 /\ SymbolValue(s[1]) < SymbolValue(s[2])
       THEN ParseRoman(Tail(s)) - SymbolValue(s[1])
       ELSE ParseRoman(Tail(s)) + SymbolValue(s[1])

\* no symbol stands four times in a row
NoFourInARow(s) ==
  \A i \in 1..Len(s) - 3 : ~(s[i] = s[i + 1] /\ s[i] = s[i + 2] /\ s[i] = s[i + 3])

\* C12: for every n in 1..3999 the numeral arabic_to_roman returns parses
\* back to n under the standard parser and repeats no symbol four times; the
\* numerals of 4, 1994 and 2024 are IV, MCMXCIV and MMXXIV.
C12_RomanRoundTrip ==
  (call = "arabic_to_roman" /\ result # <<>> /\ arg \in 1..3999) =>
     /\ ParseRoman(result[1]) = arg
     /\ NoFourInARow(result[1])
     /\ arg = 4 => result[1] = <<"I", "V">>
     /\ arg = 1994 => result[1] = <<"M", "C", "M", "X", "C", "I", "V">>
     /\ arg = 2024 => result[1] = <<"M", "M", "X", "X", "I", "V">>

\* 1994 was converted
C12_Witness ==
  /\ call = "arabic_to_roman" /\ arg = 1994
  /\ result = << <<"M", "C", "M", "X", "C", "I", "V">> >>

\* ------------------------------------------------------------ normalization
\* C13 as stated: whatever the mapping table, normalizing the normalized
\* header or type returns it unchanged.
C13_Idempotent ==
  (call \in {"map_headers", "map_statute_type"} /\ Len(result) = 2) =>
     result[2] = result[1]

\* no value of the table is a key mapped to something else
FixedValues(table) ==
  \A k \in DOMAIN table : table[k] \in DOMAIN table => table[table[k]] = table[k]
ValuesOf(table) == {table[k] : k \in DOMAIN table}

\* C13 amended: for a mapping table none of whose values is a key mapped to
\* a different value, normalizing twice gives what normalizing once gives,
\* and a header or type that is a value of the table is returned unchanged.
C13_IdempotentOnFixedValues ==
  (call \in {"map_headers", "map_statute_type"} /\ FixedValues(mappings)) =>
     /\ Len(result) = 2 => result[2] = result[1]
     /\ (call = "map_headers" /\ result # <<>> /\ arg \in ValuesOf(mappings))
          => result[1] = arg
     /\ (call = "map_statute_type" /\ result # <<>> /\ arg.k = "text"
           /\ arg.s \in ValuesOf(mappings))
          => result[1] = arg

\* a raw header was normalized twice under a table that also lists the
\* standard header
C13_Witness ==
  /\ call = "map_headers" /\ FixedValues(mappings)
  /\ DOMAIN mappings = {"Sess.", "Session"}
  /\ mappings["Sess."] = "Session" /\ mappings["Session"] = "Session"
  /\ arg = "Sess." /\ result = <<"Session", "Session">>

\* ------------------------------------------------------------ invalid input
\* C14: an answer at the confirmation prompt that is none of y, n, exit (in
\* any case), or an answer at the correction prompt that is neither exit nor
\* an integer, leaves the row index, the DataFrame and every file, the
\* checkpoint included, unchanged, and the loop is at a prompt for that row.
C14_InvalidInputNoChange ==
  [][ ( \/ pc = "confirm" /\ Lower(typed') \notin {Exit, <<"y">>, <<"n">>}
        \/ pc = "correct" /\ Lower(typed') # Exit /\ ~ParseInt(typed').ok ) =>
        /\ idx' = idx /\ df' = df /\ handled' = handled
        /\ checkpoint_file' = checkpoint_file
        /\ UNCHANGED <<audited_file, in_process_file, html_file, wrote>>
        /\ pc' \in {"confirm", "correct"}
    ]_vars

\* "7.5" was refused as a correction of the second row while an earlier
\* checkpoint is in the store
C14_Witness ==
  /\ pc = "confirm" /\ typed = <<"7", ".", "5">>
  /\ idx = 1 /\ handled = {0} /\ checkpoint_file = File(CheckpointContent(0))

\* ------------------------------------------------------ completed audit
\* C15: the step in which the audit completes (the audited file is saved)
\* leaves the checkpoint file as it was, the run has written no checkpoint,
\* and no step other than an exit answer changes the checkpoint file, so its
\* existence and content are those of the start of the run.
C15_CompletionKeepsCheckpoint ==
  [][ /\ ("audited" \in wrote' /\ "audited" \notin wrote) =>
           /\ checkpoint_file' = checkpoint_file
           /\ "checkpoint" \notin wrote'
           /\ get_last_audited_row(checkpoint_file').n = last_audited_row'
      /\ ~IsExit(typed') => checkpoint_file' = checkpoint_file
    ]_vars

\* an audit resumed at the second row of three has completed and the
\* checkpoint of the earlier pause is still there
C15_Witness ==
  /\ "audited" \in wrote /\ pc = "idle"
  /\ Len(df) = 3 /\ handled = {1, 2}
  /\ checkpoint_file = File(CheckpointContent(1))

\* ------------------------------------------------- act/resolution/appendix
\* the row is dispatched to html_for_act_resolution_appendix
ActDispatched(row) ==
  LET ty == Strip(StrOf(row["Type"]))
  IN /\ ty \in DOMAIN html_generator_mappings
     /\ html_generator_mappings[ty] = "html_for_act_resolution_appendix"

\* the title cell: the numeral of the first digit run, ". ", the title
RomanTitle(row) ==
  arabic_to_roman(DigitsValue(FirstDigitRun(StrOf(row["Number/Chapter"])), 0))
    \o <<".", " ">>
    \o (IF pd_isna(row["Title"]) THEN <<>> ELSE StrOf(row["Title"]))

\* the cells of the claim that do not depend on the public/private value
ActRowCells(row, last) ==
  /\ last.t = "tr"
  /\ last.cells[1].link /\ last.cells[1].body = Strip(StrOf(row["Type"]))
  /\ last.cells[1].body # StrOf(row["Number/Chapter"])
  /\ last.cells[3] = Plain(RomanTitle(row))
  /\ last.cells[4] = Plain(StrOf(row["Date"]))

\* C16 as stated: the row emitted for a row dispatched to the
\* act/resolution/appendix formatter has an anchor-linked type cell, an empty
\* public/private cell whatever the row's value, the title prefixed with the
\* Roman numeral of the first digit run of the number/chapter, and the date.
C16_ActRowShape ==
  [][ (gen_pc = "loop" /\ pos' = pos + 1 /\ ActDispatched(df[pos])) =>
        /\ ActRowCells(df[pos], html_content'[Len(html_content')])
        /\ html_content'[Len(html_content')].cells[2] = Plain(<<>>)
    ]_vars

\* C16 amended: the emitted row is as stated, except that its second cell
\* holds the public/private text of the row.
C16_ActRowWithPublicPrivate ==
  [][ (gen_pc = "loop" /\ pos' = pos + 1 /\ ActDispatched(df[pos])) =>
        /\ ActRowCells(df[pos], html_content'[Len(html_content')])
        /\ html_content'[Len(html_content')].cells[2]
             = Plain(StrOf(RowGet(df[pos], "Public/Private", Text(<<>>))))
    ]_vars

\* a public act numbered "c. 12, 3" was emitted with "Public" in its second
\* cell and XII before its title
C16_Witness ==
  /\ gen_pc = "loop" /\ pos = 2
  /\ ActDispatched(df[1]) /\ StrOf(df[1]["Number/Chapter"]) = TwoRuns
  /\ html_content[Len(html_content)].cells[2] = Plain(PublicT)
  /\ html_content[Len(html_content)].cells[3]
       = Plain(<<"X", "I", "I", ".", " ">> \o TitleT)

\* -------------------------------------------------------- correction prompt
\* C17: after a non-integer answer other than exit at the correction prompt
\* of a row, the next prompt is the correction prompt of that row again.
C17_CorrectionPromptRepeats ==
  [][ (pc = "correct" /\ Lower(typed') # Exit /\ ~ParseInt(typed').ok) =>
        (pc' = "correct" /\ idx' = idx)
    ]_vars

\* ------------------------------------------------- orchestrator branches
\* a run starts while an audited file exists
StartsWithAudited == pc = "idle" /\ runs' = runs + 1 /\ audited_file.exists

\* C18: a run that finds an audited file never enters the audit loop and
\* writes neither the checkpoint, the in-process file nor the audited file;
\* without an HTML output it writes the HTML generated from the audited
\* file, with one it writes nothing.
C18_AuditedBranch ==
  [][ StartsWithAudited =>
        /\ pc' = "idle"
        /\ UNCHANGED <<checkpoint_file, in_process_file, audited_file>>
        /\ wrote' \subseteq {"html"}
        /\ html_file.exists => (html_file' = html_file /\ wrote' = {})
        /\ ~html_file.exists =>
             /\ html_file'.exists /\ wrote' = {"html"}
             /\ html_file'.data = generate_html(read_excel(audited_file.data)).html
    ]_vars

\* what holds of that branch whether or not the generation raises: only the
\* HTML output can be written, and only when there was none
AuditedBranchFrame ==
  [][ StartsWithAudited =>
        /\ pc' = "idle"
        /\ UNCHANGED <<checkpoint_file, in_process_file, audited_file>>
        /\ wrote' \subseteq {"html"}
        /\ html_file.exists => (html_file' = html_file /\ wrote' = {})
        /\ (~html_file.exists /\ ~generate_html(read_excel(audited_file.data)).raised) =>
             /\ wrote' = {"html"}
             /\ html_file' = File(generate_html(read_excel(audited_file.data)).html)
    ]_vars

\* ------------------------------------------------------------ table balance
\* the tables open after the first n tokens: openings minus closings
Depth(html, n) ==
  CountOf(SubSeq(html, 1, n), "open") - CountOf(SubSeq(html, 1, n), "close")

\* C19: while generate_html is in its loop a table is open exactly when
\* previous_session is not empty; at no point of the markup is more than one
\* table open or a table closed that was not opened; the returned fragment
\* has as many table closings as table openings.
C19_TableBalance ==
  /\ gen_pc \in {"loop", "raised"} =>
       Depth(html_content, Len(html_content))
         = (IF previous_session # <<>> THEN 1 ELSE 0)
  /\ gen_pc \in {"loop", "raised", "returned"} =>
       \A n \in 0..Len(html_content) : Depth(html_content, n) \in {0, 1}
  /\ gen_pc = "returned" =>
       CountOf(html_content, "open") = CountOf(html_content, "close")

\* three rows, the second with an empty session, were returned as two tables,
\* both closed
C19_Witness ==
  /\ gen_pc = "returned" /\ Len(df) = 3
  /\ df[2]["Session"] = Text(<<>>)
  /\ CountOf(html_content, "open") = 2 /\ CountOf(html_content, "close") = 2

\* ------------------------------------------------- order and completeness
\* the step takes a confirmation, or an integer at the correction prompt
Accepts ==
  \/ pc = "confirm" /\ Lower(typed') = <<"y">>
  \/ pc = "correct" /\ Lower(typed') # Exit /\ ParseInt(typed').ok

\* C20: within a run the row index only moves from i to i + 1, and only on
\* a confirmation or an integer correction of row i, which is then handled
\* for the first time; the run saves the audited file only when the handled
\* rows are exactly the rows from the starting checkpoint on; a checkpoint
\* written by the run is an index from the starting checkpoint up to the
\* last row.
C20_AuditOrder ==
  [][ /\ (pc \in {"confirm", "correct"} /\ idx' # idx) =>
           (idx' = idx + 1 /\ Accepts)
      /\ (pc \in {"confirm", "correct"} /\ handled' # handled) =>
           (Accepts /\ idx \notin handled /\ handled' = handled \cup {idx})
      /\ (pc \in {"confirm", "correct"} /\ Accepts) => handled' = handled \cup {idx}
      /\ "audited" \in wrote' =>
           handled' = {i \in 0..(Len(df') - 1) : i >= last_audited_row'}
      /\ "checkpoint" \in wrote' =>
           /\ get_last_audited_row(checkpoint_file').ok
           /\ get_last_audited_row(checkpoint_file').n >= last_audited_row'
           /\ get_last_audited_row(checkpoint_file').n < Len(df')
    ]_vars

\* a run resumed at row 1 of three confirmed it, corrected row 2 and completed
C20_Witness ==
  /\ "audited" \in wrote /\ last_audited_row = 1 /\ Len(df) = 3
  /\ handled = {1, 2} /\ idx = 2 /\ ParseInt(typed).ok
  /\ df[3]["PDF Start"] = Num(ParseInt(typed).n)

\* -------------------------------------------------------------- termination
\* audit_process has returned False (paused) or True (completed)
Paused == pc = "idle" /\ outcome = "paused" /\ "checkpoint" \in wrote
Completed == pc = "idle" /\ "audited" \in wrote

\* at either prompt an invalid answer can always be given once more
NoAttemptLimit ==
  /\ pc = "confirm" => ENABLED ConfirmInvalid
  /\ pc = "correct" => ENABLED CorrectionInvalid

\* C21: when the user eventually gives y, an integer correction or exit, an
\* audit that is at a prompt eventually ends paused or completed; the number
\* of invalid answers before that is not limited.
C21_AuditTerminates ==
  /\ (pc \in {"confirm", "correct"}) ~> (Paused \/ Completed)
  /\ []NoAttemptLimit

\* the audit was paused by EXIT at the correction prompt of its second row
C21_Witness ==
  /\ Paused /\ idx = 1 /\ handled = {0}
  /\ typed = <<"E", "X", "I", "T">>

====
